---------------------------- MODULE Spec2Model ----------------------------
(***************************************************************************)
(* Model of examples/1d_signal.py: the script computes a Gaussian-enveloped *)
(* sinusoid of 4092 samples, opens 1d_signal.bson beside the script in     *)
(* truncating binary mode, BSON-encodes {'ex': signal, '_version': 0} and  *)
(* writes the bytes through the buffered file object, which the with       *)
(* statement closes on every exit path.                                    *)
(*                                                                         *)
(* Doubles are kept exact where the script's arithmetic is exact (the      *)
(* operands of exp are dyadic rationals) and symbolic where libm rounds:   *)
(* exp(a) and sin(b) are represented by their arguments, with only the     *)
(* IEEE identities exp(0) = 1, sin(0) = 0, 1*x = x and 0*x = 0 evaluated.  *)
(* Spec takes the comprehension of line 21 as one step; SpecLoop walks     *)
(* through its iterations one index at a time.                             *)
(* t/100. stands for the double nearest to the rational t/100.             *)
(***************************************************************************)
EXTENDS Integers, Sequences, FiniteSets, TLC

\* ------------------------------------------------------------ bounds
MaxRuns == 2
MaxCuts == 2

\* ------------------------------------------------- program constants
N == 4092
Centre == 2048
Scale == 512
Carrier == 100

\* ------------------------------------------------------------ doubles
RECURSIVE Gcd(_, _)
Gcd(a, b) == IF b = 0 THEN a ELSE Gcd(b, a % b)

Abs(x) == IF x < 0 THEN -x ELSE x

\* A double is <<kind, n, d, sn, sd>>: the rational n/d ("rat"), exp(n/d)
\* ("exp"), sin(sn/sd) ("sin") or exp(n/d) * sin(sn/sd) ("expsin").
Dbl(kind, n, d, sn, sd) == <<kind, n, d, sn, sd>>

Kind(x) == x[1]

Num(x) == x[2]

Den(x) == x[3]

SinNum(x) == x[4]

SinDen(x) == x[5]

\* The double whose value is the rational n/d (d > 0), in lowest terms.
Rat(n, d) ==
    LET g == Gcd(Abs(n), d)
    IN  Dbl("rat", n \div g, d \div g, 0, 1)

Zero == Rat(0, 1)

One == Rat(1, 1)

FromInt(i) == Rat(i, 1)

FSub(x, y) == Rat(Num(x) * Den(y) - Num(y) * Den(x), Den(x) * Den(y))

\* True division of two floats.
FDiv(x, y) ==
    IF Num(y) < 0 THEN Rat(-(Num(x) * Den(y)), Den(x) * (-Num(y)))
                  ELSE Rat(Num(x) * Den(y), Den(x) * Num(y))

\* x ** 2.0
FSquare(x) == Rat(Num(x) * Num(x), Den(x) * Den(x))

MathExp(a) ==
    IF Num(a) = 0 THEN One ELSE Dbl("exp", Num(a), Den(a), 0, 1)

MathSin(b) ==
    IF Num(b) = 0 THEN Zero ELSE Dbl("sin", 0, 1, Num(b), Den(b))

FMul(x, y) ==
    CASE Kind(x) = "rat" /\ Kind(y) = "rat" ->
            Rat(Num(x) * Num(y), Den(x) * Den(y))
      [] Kind(x) # "rat" /\ y = One -> x
      [] x = One /\ Kind(y) # "rat" -> y
      [] Kind(x) # "rat" /\ y = Zero -> Zero
      [] x = Zero /\ Kind(y) # "rat" -> Zero
      [] Kind(x) = "exp" /\ Kind(y) = "sin" ->
            Dbl("expsin", Num(x), Den(x), SinNum(y), SinDen(y))

\* Mutant of Envelope: the envelope is centred on the middle index.
EnvelopeMid(i) ==
    MathExp(FMul(Rat(-1, 2),
                 FSquare(FDiv(FSub(FromInt(N \div 2), FromInt(i)), FromInt(Scale)))))

\* math.exp(-0.5 * (((2048.0 - t)/512.0)**2.0))
Envelope(i) ==
    MathExp(FMul(Rat(-1, 2),
                 FSquare(FDiv(FSub(FromInt(Centre), FromInt(i)), FromInt(Scale)))))

\* Mutant of Sinusoid: t/100 divides integers, rounding down.
SinusoidFloor(i) == MathSin(FromInt(i \div Carrier))

\* math.sin(t/100.)
Sinusoid(i) == MathSin(FDiv(FromInt(i), FromInt(Carrier)))

Sample(i) == FMul(Envelope(i), Sinusoid(i))

\* Mutant of Stop: the range ends one index early.
StopShort == N - 1

\* range(4092): the index after the last one.
Stop == N


\* --------------------------------------------------------------- BSON
\* bson.BSON.encode: a document is int32 size, elements, NUL; an element is
\* a type byte, the key as a C string and the value.  A list is an embedded
\* document keyed "0", "1", ...; a float is type 1 with 8 bytes; an int that
\* fits 32 bits is type 16 with 4 bytes, little-endian.
TypeDouble == 1
TypeArray == 4
TypeInt32 == 16

KeyEx == <<101, 120>>
KeyVersion == <<95, 118, 101, 114, 115, 105, 111, 110>>

Int32LE(v) ==
    <<v % 256, (v \div 256) % 256, (v \div 65536) % 256, (v \div 16777216) % 256>>

RECURSIVE Log2(_)
Log2(d) == IF d <= 1 THEN 0 ELSE 1 + Log2(d \div 2)

KindCode(k) == CASE k = "rat" -> 0 [] k = "exp" -> 1 [] k = "sin" -> 2 [] k = "expsin" -> 3

\* struct.pack("<d", x): the 8-byte little-endian image of a double.  The
\* image of a model double is injective like the IEEE one: numerator
\* magnitude (3 bytes), binary exponent of the denominator, the sin
\* argument (2 + 1 bytes), and the sign and kind in the top byte.
PackDouble(x) ==
    LET m == Abs(Num(x))
    IN  <<m % 256, (m \div 256) % 256, (m \div 65536) % 256, Log2(Den(x)),
          SinNum(x) % 256, (SinNum(x) \div 256) % 256, SinDen(x),
          KindCode(Kind(x)) + (IF Num(x) < 0 THEN 128 ELSE 0)>>

RECURSIVE DecStr(_)
DecStr(i) == IF i < 10 THEN <<48 + i>> ELSE Append(DecStr(i \div 10), 48 + (i % 10))

Element(type, key, payload) == <<type>> \o key \o <<0>> \o payload

BsonDocument(body) == Int32LE(Len(body) + 5) \o body \o <<0>>

\* The elements of list[lo + 1 .. hi], halving the range.
RECURSIVE ArrayBody(_, _, _)
ArrayBody(list, lo, hi) ==
    IF hi <= lo THEN <<>>
    ELSE IF hi = lo + 1
         THEN Element(TypeDouble, DecStr(lo), PackDouble(list[hi]))
         ELSE LET mid == (lo + hi) \div 2
              IN  ArrayBody(list, lo, mid) \o ArrayBody(list, mid, hi)

EncodeValue(item) ==
    IF item.tag = "list"
    THEN Element(TypeArray, item.key,
                 BsonDocument(ArrayBody(item.list, 0, Len(item.list))))
    ELSE Element(TypeInt32, item.key, Int32LE(item.int))

\* Mutant of Document: the version tag is 1.
DocumentV1(sig) ==
    <<[key |-> KeyEx, tag |-> "list", list |-> sig, int |-> 0],
      [key |-> KeyVersion, tag |-> "int", list |-> <<>>, int |-> 1]>>

\* {'ex': signal, '_version': 0}: the items in insertion order.
Document(sig) ==
    <<[key |-> KeyEx, tag |-> "list", list |-> sig, int |-> 0],
      [key |-> KeyVersion, tag |-> "int", list |-> <<>>, int |-> 0]>>

RECURSIVE ItemsBody(_, _)
ItemsBody(items, i) ==
    IF i > Len(items) THEN <<>> ELSE EncodeValue(items[i]) \o ItemsBody(items, i + 1)

Encode(items) == BsonDocument(ItemsBody(items, 1))

\* ------------------------------------------------------------ files
\* The script lives in examples/; it may be started from any directory.
Dirs == {"examples", "elsewhere"}

ScriptFile == [dir |-> "examples", name |-> "1d_signal.py"]

Dirname(f) == f.dir

Join(dir, name) == [dir |-> dir, name |-> name]

Paths == {Join(d, "1d_signal.bson") : d \in Dirs}

\* Byte strings are held in the state as 256-byte blocks, the last one
\* shorter; Store and Load convert between the blocks and the bytes.
Store(b) ==
    [i \in 1 .. ((Len(b) + 255) \div 256) |->
        SubSeq(b, 256 * (i - 1) + 1, IF 256 * i < Len(b) THEN 256 * i ELSE Len(b))]

RECURSIVE Flatten(_, _, _)
Flatten(blocks, lo, hi) ==
    IF hi <= lo THEN <<>>
    ELSE IF hi = lo + 1 THEN blocks[hi]
         ELSE LET mid == (lo + hi) \div 2
              IN  Flatten(blocks, lo, mid) \o Flatten(blocks, mid, hi)

Load(blocks) == Flatten(blocks, 0, Len(blocks))

Absent == [exists |-> FALSE, data |-> <<>>]

Garbage == [exists |-> TRUE, data |-> Store(<<7, 0, 0, 0, 255, 1, 0>>)]

\* Mutant of Opened: mode 'ab', the old bytes stay.
OpenedAppend(old) == [exists |-> TRUE, data |-> old.data]

\* Mode 'bw': the file is created or truncated when the open succeeds.
Opened(old) == [exists |-> TRUE, data |-> <<>>]

\* The file after more bytes reached it.
Extended(old, bytes) == [old EXCEPT !.data = Store(Load(@) \o bytes)]

\* Where a write that stops early may stop: MaxCuts + 1 lengths below len.
Cuts(len) == {(k * len) \div (MaxCuts + 1) : k \in 0 .. MaxCuts}

Prefix(b, k) == SubSeq(b, 1, k)

Rest(b, k) == SubSeq(b, k + 1, Len(b))

\* [... for t in range(4092)]
Comprehension(stop) == [i \in 1 .. stop |-> Sample(i - 1)]

VARIABLES
    pc,        \* the statement the interpreter is at
    signal,    \* the list bound by line 21
    fs,        \* the file system: path -> [exists, data]
    cwd,       \* the directory the script was started from
    signal_f,  \* the file object: "none", "open" or "closed"
    buf,       \* bytes the buffered writer holds, not yet in the file
    data,      \* the bytes bson.BSON.encode returned
    error,     \* the exception in flight: "none" or "OSError"
    exit,      \* the exit status, -1 while running
    opens,     \* calls of open() in this run
    writes,    \* calls of signal_f.write() in this run
    log,       \* the events of this run, in order
    run,       \* the number of this run
    before,    \* the file system when this run started
    prevExit,  \* the exit status of the run before, -1 if none
    t,         \* SpecLoop: the comprehension's next index
    env,       \* SpecLoop: the envelope factor of the latest iteration
    car,       \* SpecLoop: the carrier factor of the latest iteration
    sample     \* SpecLoop: the element the latest iteration produced

vars == <<pc, signal, fs, cwd, signal_f, buf, data, error, exit, opens,
          writes, log, run, before, prevExit, t, env, car, sample>>

loop == <<t, env, car, sample>>

world == <<cwd, run, before, prevExit>>

\* Mutant of Target: the bare file name, resolved against the working directory.
TargetCwd == Join(cwd, "1d_signal.bson")

\* os.path.join(os.path.dirname(__file__), '1d_signal.bson')
Target == Join(Dirname(ScriptFile), "1d_signal.bson")

Init ==
    /\ pc = "compute" /\ signal = <<>>
    /\ signal_f = "none" /\ buf = <<>> /\ data = <<>> /\ error = "none"
    /\ exit = -1 /\ opens = 0 /\ writes = 0 /\ log = <<>>
    /\ cwd \in Dirs
    /\ fs \in [Paths -> {Absent, Garbage}]
    /\ fs[Join("elsewhere", "1d_signal.bson")] = Garbage
    /\ before = fs
    /\ run = 1
    /\ prevExit = -1
    /\ t = 0 /\ env = Zero /\ car = Zero /\ sample = Zero

\* Line 21: the comprehension is evaluated and the list bound to signal.
Compute ==
    /\ pc = "compute"
    /\ signal' = Comprehension(Stop)
    /\ pc' = "open"
    /\ log' = Append(log, "computed")
    /\ UNCHANGED <<fs, signal_f, buf, data, error, exit, opens, writes>>
    /\ UNCHANGED <<world, loop>>

\* open(..., 'bw') succeeds.
OpenOk ==
    /\ pc = "open"
    /\ opens' = opens + 1
    /\ fs' = [fs EXCEPT ![Target] = Opened(@)]
    /\ signal_f' = "open"
    /\ pc' = "encode"
    /\ log' = Append(log, "open")
    /\ UNCHANGED <<signal, buf, data, error, exit, writes>>
    /\ UNCHANGED <<world, loop>>

\* Mutant of OpenFail: the failed open is tried again.
OpenRetry ==
    /\ pc = "open" /\ opens < 3
    /\ opens' = opens + 1
    /\ UNCHANGED <<pc, signal, fs, signal_f, buf, data, error, exit, writes, log>>
    /\ UNCHANGED <<world, loop>>

\* open() raises OSError: nothing handles it, the interpreter exits with 1.
OpenFail ==
    /\ pc = "open"
    /\ opens' = opens + 1
    /\ error' = "OSError"
    /\ exit' = 1
    /\ pc' = "done"
    /\ UNCHANGED <<signal, fs, signal_f, buf, data, writes, log>>
    /\ UNCHANGED <<world, loop>>

\* bson.BSON.encode({'ex': signal, '_version': 0}), the argument of write.
EncodeOk ==
    /\ pc = "encode"
    /\ data' = Store(Encode(Document(signal)))
    /\ pc' = "write"
    /\ log' = Append(log, "encode")
    /\ UNCHANGED <<signal, fs, signal_f, buf, error, exit, opens, writes>>
    /\ UNCHANGED <<world, loop>>

\* Mutant of WriteOk: the bytes are written in two calls of write.
WriteChunks ==
    /\ pc = "write"
    /\ LET bytes == Load(data)
           k == IF writes = 0 THEN Len(bytes) \div 2 ELSE Len(bytes)
       IN  /\ fs' = [fs EXCEPT ![Target] = Extended(@, Prefix(bytes, k))]
           /\ data' = Store(Rest(bytes, k))
    /\ writes' = writes + 1
    /\ pc' = IF writes = 0 THEN "write" ELSE "close"
    /\ log' = Append(log, "write")
    /\ UNCHANGED <<signal, signal_f, buf, error, exit, opens>>
    /\ UNCHANGED <<world, loop>>

\* signal_f.write(data) returns: k bytes reached the file, the buffered
\* writer keeps the rest until it is flushed.
WriteOk ==
    /\ pc = "write"
    /\ \E k \in Cuts(Len(Load(data))) \cup {Len(Load(data))} :
          /\ fs' = [fs EXCEPT ![Target] = Extended(@, Prefix(Load(data), k))]
          /\ buf' = Store(Rest(Load(data), k))
    /\ writes' = writes + 1
    /\ data' = <<>>
    /\ pc' = "close"
    /\ log' = Append(log, "write")
    /\ UNCHANGED <<signal, signal_f, error, exit, opens>>
    /\ UNCHANGED <<world, loop>>

\* Mutant of WriteFail: no with statement, the exception ends the program
\* with the file object still open.
WriteFailLeak ==
    /\ pc = "write"
    /\ \E k \in Cuts(Len(Load(data))) :
          fs' = [fs EXCEPT ![Target] = Extended(@, Prefix(Load(data), k))]
    /\ writes' = writes + 1
    /\ data' = <<>>
    /\ error' = "OSError"
    /\ exit' = 1
    /\ pc' = "done"
    /\ log' = Append(log, "write")
    /\ UNCHANGED <<signal, signal_f, buf, opens>>
    /\ UNCHANGED <<world, loop>>

\* signal_f.write(data) raises OSError after k bytes reached the file.
WriteFail ==
    /\ pc = "write"
    /\ \E k \in Cuts(Len(Load(data))) :
          fs' = [fs EXCEPT ![Target] = Extended(@, Prefix(Load(data), k))]
    /\ writes' = writes + 1
    /\ data' = <<>>
    /\ error' = "OSError"
    /\ pc' = "close"
    /\ log' = Append(log, "write")
    /\ UNCHANGED <<signal, signal_f, buf, exit, opens>>
    /\ UNCHANGED <<world, loop>>

\* Mutant of CloseOk: the handle is released without flushing the buffer.
CloseNoFlush ==
    /\ pc = "close"
    /\ buf' = <<>>
    /\ signal_f' = "closed"
    /\ exit' = IF error = "none" THEN 0 ELSE 1
    /\ pc' = "done"
    /\ log' = Append(log, "close")
    /\ UNCHANGED <<signal, fs, data, error, opens, writes>>
    /\ UNCHANGED <<world, loop>>

\* __exit__: close() flushes the buffer and releases the handle; an
\* exception in flight goes on to end the program.
CloseOk ==
    /\ pc = "close"
    /\ fs' = [fs EXCEPT ![Target] = Extended(@, Load(buf))]
    /\ buf' = <<>>
    /\ signal_f' = "closed"
    /\ exit' = IF error = "none" THEN 0 ELSE 1
    /\ pc' = "done"
    /\ log' = Append(log, "close")
    /\ UNCHANGED <<signal, data, error, opens, writes>>
    /\ UNCHANGED <<world, loop>>

\* __exit__: the flush inside close() raises OSError; the handle is
\* released all the same and the buffered bytes are lost.  Bytes the flush
\* wrote before it failed count as written by write: k of WriteOk is free.
CloseFail ==
    /\ pc = "close" /\ buf # <<>>
    /\ buf' = <<>>
    /\ signal_f' = "closed"
    /\ error' = "OSError"
    /\ exit' = 1
    /\ pc' = "done"
    /\ log' = Append(log, "close")
    /\ UNCHANGED <<signal, fs, data, opens, writes>>
    /\ UNCHANGED <<world, loop>>

\* The script is started again, by a new interpreter.
Restart ==
    /\ pc = "done" /\ run < MaxRuns
    /\ run' = run + 1
    /\ before' = fs
    /\ prevExit' = exit
    /\ pc' = "compute" /\ signal' = <<>>
    /\ signal_f' = "none" /\ buf' = <<>> /\ data' = <<>> /\ error' = "none"
    /\ exit' = -1 /\ opens' = 0 /\ writes' = 0 /\ log' = <<>>
    /\ UNCHANGED <<fs, cwd, loop>>

Next ==
    \/ Compute
    \/ OpenOk
    \/ OpenFail
    \/ EncodeOk
    \/ WriteOk
    \/ WriteFail
    \/ CloseOk
    \/ CloseFail
    \/ Restart

Spec == Init /\ [][Next]_vars

\* ----------------------------------------------- the loop of line 21
LoopInit ==
    /\ Init
    /\ cwd = "examples"
    /\ fs = [p \in Paths |-> Garbage]

\* One iteration: the element expression at index t.
Iterate ==
    /\ t < Stop
    /\ env' = Envelope(t)
    /\ car' = Sinusoid(t)
    /\ sample' = FMul(Envelope(t), Sinusoid(t))
    /\ t' = t + 1
    /\ UNCHANGED <<pc, signal, fs, signal_f, buf, data, error, exit, opens,
                   writes, log>>
    /\ UNCHANGED world

LoopNext == Iterate

SpecLoop == LoopInit /\ [][LoopNext]_vars

\* ------------------------------------------------- a BSON decoder
\* The reader of the file: the inverse of the encoding, used by the
\* properties that speak of decoding the written document.
RECURSIVE Pow2(_)
Pow2(j) == IF j = 0 THEN 1 ELSE 2 * Pow2(j - 1)

CodeKind(c) == CASE c = 0 -> "rat" [] c = 1 -> "exp" [] c = 2 -> "sin" [] c = 3 -> "expsin"

ReadInt32(b, p) ==
    b[p] + 256 * b[p + 1] + 65536 * b[p + 2]
         + 16777216 * (IF b[p + 3] >= 128 THEN b[p + 3] - 256 ELSE b[p + 3])

UnpackDouble(b, p) ==
    LET top == b[p + 7]
        mag == b[p] + 256 * b[p + 1] + 65536 * b[p + 2]
    IN  Dbl(CodeKind(top % 128), IF top >= 128 THEN -mag ELSE mag,
            Pow2(b[p + 3]), b[p + 4] + 256 * b[p + 5], b[p + 6])

\* The index of the NUL that ends the C string starting at p.
RECURSIVE ScanKey(_, _)
ScanKey(b, p) == IF p >= Len(b) \/ b[p] = 0 THEN p ELSE ScanKey(b, p + 1)

RECURSIVE ParseElems(_, _, _, _)
\* The element at p: its item and the index after it.
ParseElement(b, p) ==
    LET nul == ScanKey(b, p + 1)
        key == SubSeq(b, p + 1, nul - 1)
        v == nul + 1
        blank == [key |-> key, tag |-> "bad", int |-> 0, dbl |-> Zero, list |-> <<>>]
    IN  CASE b[p] = TypeDouble /\ v + 7 <= Len(b) ->
               [item |-> [blank EXCEPT !.tag = "double", !.dbl = UnpackDouble(b, v)],
                next |-> v + 8]
          [] b[p] = TypeInt32 /\ v + 3 <= Len(b) ->
               [item |-> [blank EXCEPT !.tag = "int", !.int = ReadInt32(b, v)],
                next |-> v + 4]
          [] b[p] = TypeArray /\ v + 4 <= Len(b) ->
               LET size == ReadInt32(b, v)
                   last == v + size - 1
                   sub == IF size >= 5 /\ last <= Len(b)
                          THEN ParseElems(b, v + 4, last - (v + 4), last)
                          ELSE [items |-> <<>>, pos |-> 0]
                   good == sub.pos = last /\ b[last] = 0
                           /\ \A i \in 1 .. Len(sub.items) : sub.items[i].tag = "double"
               IN  [item |-> [blank EXCEPT
                                 !.tag = IF good THEN "list" ELSE "bad",
                                 !.list = [i \in 1 .. Len(sub.items) |-> sub.items[i].dbl]],
                    next |-> IF size >= 5 THEN last + 1 ELSE Len(b) + 1]
          [] OTHER -> [item |-> blank, next |-> Len(b) + 1]

\* At most k elements from p, stopping at the terminator's index last.
ParseElems(b, p, k, last) ==
    IF p >= last \/ k <= 0 THEN [items |-> <<>>, pos |-> p]
    ELSE IF k = 1
         THEN LET e == ParseElement(b, p)
              IN  [items |-> <<e.item>>, pos |-> e.next]
         ELSE LET L == ParseElems(b, p, k \div 2, last)
              IN  IF L.pos >= last THEN L
                  ELSE LET R == ParseElems(b, L.pos, k - (k \div 2), last)
                       IN  [items |-> L.items \o R.items, pos |-> R.pos]

\* A compliant decoder: the items of the document, or ok = FALSE.
Decode(b) ==
    IF Len(b) < 5 \/ ReadInt32(b, 1) # Len(b) \/ b[Len(b)] # 0
    THEN [ok |-> FALSE, items |-> <<>>]
    ELSE LET r == ParseElems(b, 5, Len(b) - 5, Len(b))
         IN  [ok |-> r.pos = Len(b)
                      /\ \A i \in 1 .. Len(r.items) : r.items[i].tag # "bad",
              items |-> r.items]

\* ------------------------------------------------------- properties
\* 1d_signal.bson in the script's own directory.
TheFile == Join("examples", "1d_signal.bson")

\* The bytes of that file.
Written == Load(fs[TheFile].data)

\* The order of a run's events.
Order == <<"computed", "open", "encode", "write", "close">>

IsPrefix(a, b) == Len(a) <= Len(b) /\ a = SubSeq(b, 1, Len(a))

\* The samples of the indices 0 .. 4091 in increasing order, and the file
\* a run leaves in an empty directory.
ExpectedSignal == [i \in 1 .. 4092 |-> Sample(i - 1)]

FreshOutput == Encode(Document(ExpectedSignal))

Succeeded == pc = "done" /\ exit = 0

\* C1: once line 21 has run, signal holds exactly 4092 samples, the sample
\* of index i - 1 at position i for i = 1 .. 4092, and after a successful
\* run the list decoded from key "ex" of the written file is that sequence.
C1_SignalIsTheSequence ==
    /\ pc # "compute" =>
          /\ Len(signal) = 4092
          /\ signal = ExpectedSignal
    /\ Succeeded =>
          LET d == Decode(Written)
          IN  /\ d.ok
              /\ \E j \in 1 .. Len(d.items) :
                    /\ d.items[j].key = KeyEx
                    /\ d.items[j].tag = "list"
                    /\ d.items[j].list = signal

C1_Witness == Succeeded /\ Len(signal) = 4092 /\ Len(Written) > 4092

\* x = exp(-0.5 * ((2048 - i)/512)^2) * sin(i/100) as a real number: the
\* arguments of exp and sin are those of the formula, exp(0) = 1 leaves the
\* sine alone and sin(0) = 0 makes the product 0.
ExpArgIs(x, i) ==
    /\ 524288 % Den(x) = 0
    /\ -Num(x) * (524288 \div Den(x)) = (2048 - i) * (2048 - i)

SinArgIs(x, i) ==
    /\ 100 % SinDen(x) = 0
    /\ SinNum(x) * (100 \div SinDen(x)) = i

Denotes(x, i) ==
    CASE Kind(x) = "expsin" -> ExpArgIs(x, i) /\ SinArgIs(x, i)
      [] Kind(x) = "sin" -> i = 2048 /\ SinArgIs(x, i)
      [] Kind(x) = "rat" -> Num(x) = 0 /\ i = 0
      [] OTHER -> FALSE

\* C2: for every index i in [0, 4092) the element the comprehension
\* produces at i is exp(-0.5 * ((2048.0 - i)/512.0)^2) * sin(i/100.0).
C2_SampleIsTheFormula == t > 0 => t <= 4092 /\ Denotes(sample, t - 1)

C2_Witness == t = 4092 /\ Kind(sample) = "expsin"

\* C3: after a successful run the written file decodes to exactly two
\* entries, _version the integer 0 and ex the 4092 samples of signal,
\* element for element.
C3_RoundTrip ==
    Succeeded =>
        LET d == Decode(Written)
        IN  /\ d.ok
            /\ Len(d.items) = 2
            /\ \E i, j \in 1 .. 2 :
                  /\ i # j
                  /\ d.items[i].key = KeyVersion
                  /\ d.items[i].tag = "int"
                  /\ d.items[i].int = 0
                  /\ d.items[j].key = KeyEx
                  /\ d.items[j].tag = "list"
                  /\ Len(d.items[j].list) = 4092
                  /\ \A k \in 1 .. 4092 : d.items[j].list[k] = signal[k]

C3_Witness == Succeeded /\ Decode(Written).ok /\ before[TheFile].exists

\* C4: a successful run that follows a successful run leaves the file
\* byte for byte as it found it, and every successful run leaves the same
\* bytes whatever the file held before.
C4_Idempotent ==
    /\ Succeeded /\ run > 1 /\ prevExit = 0 => fs[TheFile] = before[TheFile]
    /\ Succeeded => Written = FreshOutput

C4_Witness == Succeeded /\ run = 2 /\ prevExit = 0

\* C5: a run never ends with the file object open: if the open succeeded
\* the object is closed at the end, after a write that returned and after
\* one that raised.
C5_HandleReleased ==
    pc = "done" =>
        /\ signal_f # "open"
        /\ (Len(log) >= 2 /\ log[2] = "open") => signal_f = "closed"

C5_Witness == pc = "done" /\ error = "OSError" /\ signal_f = "closed"

\* C6: after an I/O failure the run ends with a non-zero status, open and
\* write are each called at most once in a run, and once the error is in
\* flight nothing touches the file system again.
C6_ErrorPropagates ==
    [][/\ (pc' = "done" /\ error' = "OSError") => exit' > 0
       /\ opens' <= 1
       /\ writes' <= 1
       /\ error = "OSError" => fs' = fs]_vars

C6_Witness ==
    /\ pc = "done" /\ error = "OSError" /\ exit = 1 /\ writes = 1
    /\ Len(Written) > 0

\* C7: a run in which nothing fails ends with status 0 and the complete
\* document in 1d_signal.bson beside the script, wherever it was started
\* from; no run changes any other file.
C7_SoleEffect ==
    /\ \A p \in Paths \ {TheFile} : fs[p] = before[p]
    /\ (pc = "done" /\ error = "none") =>
          /\ exit = 0
          /\ fs[TheFile].exists
          /\ Written = FreshOutput

C7_Witness ==
    /\ pc = "done" /\ error = "none" /\ cwd = "elsewhere"
    /\ ~before[TheFile].exists /\ fs[TheFile].exists

\* C8: at index 2048 the envelope factor is exactly 1.0 and no index has
\* a larger one (exp of a negative argument is below 1), so the sample at
\* 2048 is sin(20.48); the sample at index 0 is exactly 0.
C8_Boundary ==
    /\ t = 2049 => env = One /\ sample = MathSin(Rat(2048, 100)) /\ sample = car
    /\ t = 1 => sample = Zero
    /\ t > 0 => env = One \/ (Kind(env) = "exp" /\ Num(env) < 0)

C8_Witness == t = 2049 /\ env = One /\ Kind(sample) = "sin"

\* C9: the events of a run are a prefix of computed, open, encode, write,
\* close; the file is opened only with all 4092 samples computed, signal
\* does not change after line 21, and a closed file has seen one write.
C9_Ordering ==
    [][/\ IsPrefix(log', Order)
       /\ opens' > 0 => Len(signal') = 4092 /\ log'[1] = "computed"
       /\ (pc # "compute" /\ pc' # "compute") => signal' = signal
       /\ signal_f' = "closed" => writes' = 1
       /\ (pc' = "done" /\ exit' = 0) => log' = Order]_vars

C9_Witness == pc = "done" /\ log = Order /\ writes = 1

\* What the file held before does not survive a successful open: a file
\* whose bytes are a proper prefix of the new document.
IsProperPrefix(a, b) == Len(a) < Len(b) /\ a = SubSeq(b, 1, Len(a))

\* C10: a successful open empties the file before any byte is written; if
\* the write then fails the file is left empty or with a proper prefix
\* of the new document, not its old bytes; if the open fails the file is
\* as it was.
C10_NonAtomicOverwrite ==
    /\ pc \in {"encode", "write"} => fs[TheFile] = [exists |-> TRUE, data |-> <<>>]
    /\ (pc = "done" /\ signal_f = "closed" /\ error # "none") =>
          /\ fs[TheFile].exists
          /\ IsProperPrefix(Written, FreshOutput)
          /\ before[TheFile] = Garbage => fs[TheFile] # before[TheFile]
    /\ (pc = "done" /\ signal_f = "none") => fs[TheFile] = before[TheFile]

C10_Witness ==
    /\ pc = "done" /\ signal_f = "closed" /\ error = "OSError"
    /\ before[TheFile] = Garbage /\ Len(Written) > 0

=============================================================================
